---- MODULE Spec2Model ----
(***************************************************************************)
(* Model of the incremental crawl-and-reconcile run of main.py: the store  *)
(* records.json is loaded, result pages are read window by window, cases   *)
(* are reconciled against the store, and the run report and the store are  *)
(* written with write_json_atomic.  Several runs follow each other on the  *)
(* same data directory.                                                    *)
(*                                                                         *)
(* Text is a sequence of tokens ("" is <<>>), Python's None is the value   *)
(* None below, a timestamp is the number of seconds shown by the clock.    *)
(***************************************************************************)
EXTENDS Naturals, Integers, Sequences, FiniteSets, TLC

\* ------------------------------------------------------------------ bounds
NumCases == 2
MaxRuns == 2
MaxReads == 3
MaxPages == 2
MaxDay == 2
MaxTime == 2
MaxNums == 3
MaxText == 4

Cases == 1..NumCases
Days == 1..MaxDay
Times == 0..MaxTime

\* a date as text: the day it names (days counted from the first day of a
\* month) and whether month and day are written with their leading zero
\* ("09/01/2025") or without ("9/1/2025")
DateStrings == [day : 1..(MaxDay + 1), padded : BOOLEAN]

\* datetime.strptime(s, "%m/%d/%Y").date(): both writings are accepted
strptime(s) == s.day

\* date.strftime("%m/%d/%Y"): always with the leading zeros
strftime(d) == [day |-> d, padded |-> TRUE]

\* a line the operator types that is no date ("tomorrow", "13/45/2025", "")
NotADate == [day |-> 0, padded |-> FALSE]

\* the lines input() may return: a date in either writing or a text that is
\* no date, typed with or without blanks around it
TypedLines == [text : DateStrings \cup {NotADate}, blanks : BOOLEAN]

\* input(...).strip(): the text without the blanks around it
StripLine(line) == line.text

\* datetime.strptime(s, "%m/%d/%Y") raises ValueError on a text that is no date
Parses(s) == s # NotADate

\* utils.py 30: for attempt in range(2)
Attempts == 2

\* utils.py 30-45: the loop of prompt_for_date_range from its attempt-th
\* round on. stdin holds the lines the operator types, two per round;
\* the result tells whether ValueError left the function, the pair returned
\* and the number of lines read.
RECURSIVE PromptFrom(_, _, _)
PromptFrom(stdin, attempt, attempts) ==
    IF attempt >= attempts
    THEN [raised |-> TRUE, value |-> <<>>, read |-> 2 * attempt]
    ELSE LET start_input == StripLine(stdin[2 * attempt + 1])
             end_input   == StripLine(stdin[2 * attempt + 2])
         IN  IF /\ Parses(start_input)
                /\ Parses(end_input)
                /\ ~(strptime(end_input) < strptime(start_input))
             THEN [raised |-> FALSE, value |-> <<start_input, end_input>>,
                   read |-> 2 * (attempt + 1)]
             ELSE PromptFrom(stdin, attempt + 1, attempts)

\* a third round is granted after two failed ones
PromptThreeRounds(stdin) == PromptFrom(stdin, 0, Attempts + 1)

\* utils.py 17-45
prompt_for_date_range(stdin) == PromptFrom(stdin, 0, Attempts)

\* ------------------------------------------------------- values and text
None == <<"<None>">>
EmptyStr == <<>>

IsSpace(c) == c = " "

RECURSIVE LStrip(_)
LStrip(s) == IF s # <<>> /\ IsSpace(Head(s)) THEN LStrip(Tail(s)) ELSE s

RECURSIVE RStrip(_)
RStrip(s) ==
    IF s # <<>> /\ IsSpace(s[Len(s)]) THEN RStrip(SubSeq(s, 1, Len(s) - 1)) ELSE s

\* str.strip()
Strip(s) == RStrip(LStrip(s))

\* str.find(sep) + 1: the position of the first occurrence of sep, 0 if none
FirstIndex(s, sep) ==
    LET hits == {i \in 1..(Len(s) - Len(sep) + 1) : SubSeq(s, i, i + Len(sep) - 1) = sep}
    IN  IF hits = {} THEN 0 ELSE CHOOSE i \in hits : \A j \in hits : i <= j

\* str.split(sep, 1)
SplitOnce(s, sep) ==
    LET i == FirstIndex(s, sep)
    IN  IF i = 0 THEN <<s>>
        ELSE <<SubSeq(s, 1, i - 1), SubSeq(s, i + Len(sep), Len(s))>>

\* a parse that tries the separator "- " before " - "
ParseDashSpaceFirst(text) ==
    LET parts == SplitOnce(text, <<"-", " ">>)
    IN  IF Len(parts) = 2 THEN parts[2]
        ELSE LET parts2 == SplitOnce(text, <<" ", "-", " ">>)
             IN  IF Len(parts2) = 2 THEN parts2[2] ELSE text

parse_init_action(text) ==
    LET parts == SplitOnce(text, <<" ", "-", " ">>)
    IN  IF Len(parts) = 2 THEN parts[2]
        ELSE LET parts2 == SplitOnce(text, <<"-", " ">>)
             IN  IF Len(parts2) = 2 THEN parts2[2] ELSE text

\* sep.join(parts), every part a text
RECURSIVE Join(_, _)
Join(parts, sep) ==
    IF parts = <<>> THEN <<>>
    ELSE IF Len(parts) = 1 THEN parts[1]
    ELSE parts[1] \o sep \o Join(Tail(parts), sep)

\* filter(None, parts): drops the empty texts
RECURSIVE FilterNonEmpty(_)
FilterNonEmpty(parts) ==
    IF parts = <<>> THEN <<>>
    ELSE IF Head(parts) = <<>> THEN FilterNonEmpty(Tail(parts))
    ELSE <<Head(parts)>> \o FilterNonEmpty(Tail(parts))

\* --------------------------------------------------- what the site shows
\* The cells of the result row of a case (card_components).  Python index
\* i is position i + 1; position 4 holds the case number.
ColumnCounts == {3, 5, 7}

FullCells(cn) ==
    << <<"sel">>, <<"id">>,
       IF cn = 1 THEN <<"p1">> ELSE <<" ", "p2">>,
       cn,
       <<"type">>,
       IF cn = 1 THEN <<"d1">> ELSE <<"d2", " ">>,
       IF cn = 1 THEN <<"E", " ", "-", " ", "N">> ELSE <<"T", "-", " ", "C", " ">> >>

\* a row: its cells, and whether the case-number cell holds a link
Rows ==
    { [cells |-> SubSeq(FullCells(cn), 1, n), link |-> l] :
        cn \in Cases, n \in ColumnCounts, l \in BOOLEAN }

\* the #addressInfo container of a case detail page: absent, or its div
\* rows, each the non-empty span texts of the row (extract_span_texts)
StreetRow == << <<"23">>, <<"Prince">>, <<"Street">>, <<"9">> >>
PlaceRow == << <<"Danvers">>, <<"MA">>, <<"01923">> >>

AddressPages ==
    { [present |-> FALSE, rows |-> <<>>],
      [present |-> TRUE, rows |-> <<StreetRow>>],
      [present |-> TRUE, rows |-> <<StreetRow, PlaceRow>>] }

\* the #ptyContainer of a case detail page: absent, or its direct child rows
PlaintiffBlock == [header |-> TRUE, name |-> <<"P1">>, role |-> <<" ", "-", " ", "Plaintiff">>]
DefendantBlock == [header |-> TRUE, name |-> <<"D1">>, role |-> <<" ", "-", " ", "Defendant">>]

PartyPages ==
    { [present |-> FALSE, blocks |-> <<>>],
      [present |-> TRUE, blocks |-> <<>>],
      [present |-> TRUE, blocks |-> <<PlaintiffBlock>>],
      [present |-> TRUE, blocks |-> <<DefendantBlock>>],
      [present |-> TRUE, blocks |-> <<PlaintiffBlock, DefendantBlock>>] }

\* every case detail page: each container in each of its states
AllDetailPages == [address : AddressPages, parties : PartyPages]

\* the case detail pages met during a run: nothing rendered, containers
\* without content, or both containers filled
DetailPages ==
    { d \in AllDetailPages :
        /\ d.address.present = d.parties.present
        /\ Len(d.parties.blocks) \in {0, 2}
        /\ Len(d.address.rows) = 2 <=> Len(d.parties.blocks) = 2 }

\* the #srchResultNotice text as the numbers re.findall(r"\d+") finds in it,
\* in the order of the text; absent stands for the wait timing out
NoticeNumbers == {0, 1, 2, 999, 1000}

Notices ==
    {[present |-> FALSE, nums |-> <<>>]}
      \cup {[present |-> TRUE, nums |-> ns] :
                ns \in UNION {[1..n -> NoticeNumbers] : n \in 0..MaxNums}}

\* ------------------------------------------------------------ CourtCase
\* a new case whose updated_at is left at the start of the clock
NewCourtCaseUnstamped(cn, cells, t) ==
    [ case_number   |-> cn,
      status        |-> "new",
      file_date     |-> Strip(cells[6]),
      primary_party |-> Strip(cells[3]),
      defendant     |-> EmptyStr,
      plaintiff     |-> EmptyStr,
      init_action   |-> parse_init_action(Strip(cells[7])),
      address       |-> None,
      zipcode       |-> None,
      created_at    |-> t,
      updated_at    |-> 0 ]

\* main.py 260-272: CourtCase(...) for a case that is not in the store
NewCourtCase(cn, cells, t) ==
    [ case_number   |-> cn,
      status        |-> "new",
      file_date     |-> Strip(cells[6]),
      primary_party |-> Strip(cells[3]),
      defendant     |-> EmptyStr,
      plaintiff     |-> EmptyStr,
      init_action   |-> parse_init_action(Strip(cells[7])),
      address       |-> None,
      zipcode       |-> None,
      created_at    |-> t,
      updated_at    |-> t ]

\* a seen case stamped as if it had just been created
SeenCourtCaseRecreated(stored, t) ==
    [stored EXCEPT !.status = "seen", !.updated_at = t, !.created_at = t]

\* CourtCase(**case_records[case_number]) with status and updated_at reset
SeenCourtCase(stored, t) == [stored EXCEPT !.status = "seen", !.updated_at = t]

\* ---------------------------------------------------- detail extraction
FullAddress(street_parts, place_parts) ==
    LET city  == IF Len(place_parts) >= 1 THEN place_parts[1] ELSE EmptyStr
        state == IF Len(place_parts) >= 2 THEN place_parts[2] ELSE EmptyStr
        zipc  == IF Len(place_parts) >= 3 THEN place_parts[3] ELSE EmptyStr
        line1 == Join(street_parts, <<" ">>)
        line2 == Join(FilterNonEmpty(<<city, state>>), <<",", " ">>)
                   \o (IF zipc # EmptyStr THEN <<" ">> \o zipc ELSE <<>>)
    IN  [ address |-> IF line2 # <<>> THEN line1 \o <<",", " ">> \o line2 ELSE line1,
          zipcode |-> zipc ]

\* an address that cannot be read is recorded as unknown
ExtractAddressClears(court_case, page) ==
    IF ~page.present \/ Len(page.rows) < 2
    THEN [court_case EXCEPT !.address = None, !.zipcode = None]
    ELSE LET a == FullAddress(page.rows[1], page.rows[2])
         IN  [court_case EXCEPT !.address = a.address, !.zipcode = a.zipcode]

\* main.py 294-321
ExtractAddress(court_case, page) ==
    IF ~page.present \/ Len(page.rows) < 2
    THEN court_case     \* TimeoutException / IndexError: don't update address
    ELSE LET a == FullAddress(page.rows[1], page.rows[2])
         IN  [court_case EXCEPT !.address = a.address, !.zipcode = a.zipcode]

Lower(tok) ==
    IF tok = "Plaintiff" THEN "plaintiff"
    ELSE IF tok = "Defendant" THEN "defendant" ELSE tok

\* re.sub(r"\s|-", " ", role_raw).strip().lower()
NormalizeRole(role_raw) ==
    LET blanked == [i \in 1..Len(role_raw) |->
                      IF role_raw[i] = "-" \/ IsSpace(role_raw[i]) THEN " " ELSE role_raw[i]]
        stripped == Strip(blanked)
    IN  [i \in 1..Len(stripped) |-> Lower(stripped[i])]

Contains(role, word) == \E i \in 1..Len(role) : role[i] = word

\* the scan of party_blocks: <<first_plaintiff, first_defendant>>
RECURSIVE ScanParties(_, _, _)
ScanParties(blocks, first_plaintiff, first_defendant) ==
    IF blocks = <<>> THEN <<first_plaintiff, first_defendant>>
    ELSE LET b == Head(blocks) IN
         IF ~b.header THEN ScanParties(Tail(blocks), first_plaintiff, first_defendant)
         ELSE LET role == NormalizeRole(b.role)
                  fp == IF Contains(role, "plaintiff") /\ first_plaintiff = None
                        THEN Strip(b.name) ELSE first_plaintiff
                  fd == IF Contains(role, "defendant") /\ first_defendant = None
                        THEN Strip(b.name) ELSE first_defendant
              IN  IF fp \notin {None, EmptyStr} /\ fd \notin {None, EmptyStr}
                  THEN <<fp, fd>>
                  ELSE ScanParties(Tail(blocks), fp, fd)

ExtractParties(court_case, page) ==
    IF ~page.present
    THEN court_case     \* TimeoutException: don't update
    ELSE LET found == ScanParties(page.blocks, None, None)
         IN  [court_case EXCEPT !.plaintiff = found[1], !.defendant = found[2]]

\* one try block around both extractions: a failure of the address
\* extraction skips the party extraction
ExtractDetailsOneTry(court_case, detail) ==
    IF ~detail.address.present \/ Len(detail.address.rows) < 2
    THEN court_case
    ELSE ExtractParties(ExtractAddress(court_case, detail.address), detail.parties)

\* main.py 294-363: the address extraction, then the party extraction, each
\* in its own try block
ExtractDetails(court_case, detail) ==
    ExtractParties(ExtractAddress(court_case, detail.address), detail.parties)

\* Promote without the test of the status: every case is promoted
PromoteAnyStatus(court_case, update_seen, t) ==
    IF update_seen
    THEN [court_case EXCEPT !.status = "updated", !.updated_at = t]
    ELSE court_case

\* Promote without the refresh of updated_at
PromoteKeepTime(court_case, update_seen, t) ==
    IF update_seen /\ court_case.status = "seen"
    THEN [court_case EXCEPT !.status = "updated"]
    ELSE court_case

\* no promotion: a refreshed case is recorded as it was queued
PromoteNever(court_case, update_seen, t) == court_case

\* main.py 365-368: promotion of a previously seen case
Promote(court_case, update_seen, t) ==
    IF update_seen /\ court_case.status = "seen"
    THEN [court_case EXCEPT !.status = "updated", !.updated_at = t]
    ELSE court_case

\* ------------------------------------------------ reconciliation store
EmptyMap == <<>>

lookup_court_case(records, case_number) == case_number \in DOMAIN records

\* records[key] = value
Put(records, key, value) == (key :> value) @@ records

\* a merge that keeps the address of the entry it replaces
MergeKeepAddress(records, case_dict) ==
    IF case_dict.case_number \in DOMAIN records
    THEN Put(records, case_dict.case_number,
             [case_dict EXCEPT !.address = records[case_dict.case_number].address])
    ELSE Put(records, case_dict.case_number, case_dict)

\* a merge under the case number of the first row instead of the record's own
MergeStaleKey(records, case_dict) == Put(records, 1, case_dict)

\* main.py 370-373, the merge: the whole record under its own case_number
Merge(records, case_dict) == Put(records, case_dict.case_number, case_dict)

\* Counter(...).items() with cnt > 1
Occurrences(numbers, n) == Cardinality({i \in 1..Len(numbers) : numbers[i] = n})

duplicate_case_count(case_list) ==
    LET numbers == [i \in 1..Len(case_list) |-> case_list[i].case_number]
    IN  Cardinality({n \in {numbers[i] : i \in 1..Len(numbers)} : Occurrences(numbers, n) > 1})

StatusCount(results, status) == Cardinality({k \in DOMAIN results : results[k].status = status})

\* ------------------------------------------------ coverage and windows
\* a coverage that gives up with 0.0 instead of 1.0
CoverageZeroOnFailure(notice) ==
    IF ~notice.present THEN <<0, 1>>
    ELSE IF Len(notice.nums) >= 2
         THEN IF notice.nums[2] # 0 THEN <<notice.nums[1], notice.nums[2]>> ELSE <<0, 1>>
         ELSE <<0, 1>>

\* get_search_coverage: <<returned, total>> as a fraction; 1.0 is <<1, 1>>
get_search_coverage(notice) ==
    IF ~notice.present THEN <<1, 1>>
    ELSE IF Len(notice.nums) >= 2
         THEN IF notice.nums[2] # 0 THEN <<notice.nums[1], notice.nums[2]>> ELSE <<1, 1>>
         ELSE <<1, 1>>

\* utils.py 293-298: the loop over the days from current to end
RECURSIVE DaysFrom(_, _)
DaysFrom(current, end) ==
    IF current <= end THEN <<strftime(current)>> \o DaysFrom(current + 1, end) ELSE <<>>

\* an expansion that starts the day after start_date
ExpandWithoutStartDay(start_date, end_date) ==
    DaysFrom(strptime(start_date) + 1, strptime(end_date))

\* an expansion that stops the day before end_date
ExpandWithoutEndDay(start_date, end_date) ==
    DaysFrom(strptime(start_date), strptime(end_date) - 1)

expand_date_range(start_date, end_date) ==
    DaysFrom(strptime(start_date), strptime(end_date))

\* coverage >= threshold (0.999) or isclose(coverage, 1.0, rel_tol=0,
\* abs_tol=1e-9), on the fraction num / den with den > 0
GoodEnough(coverage) ==
    LET num == coverage[1]
        den == coverage[2]
        diff == IF num >= den THEN num - den ELSE den - num
    IN  \/ num >= den
        \/ den - num <= den \div 1000
        \/ diff <= den \div 1000000000

build_search_ranges(start_date, end_date, coverage) ==
    IF GoodEnough(coverage) THEN << <<start_date, end_date>> >>
    ELSE LET days == expand_date_range(start_date, end_date)
         IN  [i \in 1..Len(days) |-> <<days[i], days[i]>>]

\* ------------------------------------------------------ files and JSON
\* A file is the sequence of tokens written to it.  json.dump writes an
\* object as an opening token, one item per key and a closing token.
NoFile == [exists |-> FALSE, content |-> <<>>]
EmptyFile == [exists |-> TRUE, content |-> <<>>]

OpenToken == [t |-> "open"]
CloseToken == [t |-> "close"]
Item(k, v) == [t |-> "item", key |-> k, value |-> v]

RECURSIVE SortedKeys(_)
SortedKeys(S) ==
    IF S = {} THEN <<>>
    ELSE LET m == CHOOSE x \in S : \A y \in S : x <= y
         IN  <<m>> \o SortedKeys(S \ {m})

\* json.dump of a mapping keyed by case_number
Serialize(map) ==
    LET keys == SortedKeys(DOMAIN map)
    IN  <<OpenToken>> \o [i \in 1..Len(keys) |-> Item(keys[i], map[keys[i]])] \o <<CloseToken>>

\* json.dump of run_data: its counts, its coverage, then its results
SerializeRun(data) ==
    LET keys == SortedKeys(DOMAIN data.results)
    IN  <<OpenToken, [t |-> "counts", value |-> data.counts],
          [t |-> "coverage", value |-> data.coverage]>>
          \o [i \in 1..Len(keys) |-> Item(keys[i], data.results[keys[i]])]
          \o <<CloseToken>>

\* a text json.load accepts as an object
WellFormed(content) ==
    /\ Len(content) >= 2
    /\ content[1] = OpenToken
    /\ content[Len(content)] = CloseToken
    /\ \A i \in 2..(Len(content) - 1) : content[i].t # "open" /\ content[i].t # "close"

\* json.load of an object: later items win
ParseObject(content) ==
    LET idx == {i \in 1..Len(content) : content[i].t = "item"}
        keys == {content[i].key : i \in idx}
        last(k) == CHOOSE i \in idx : content[i].key = k /\ \A j \in idx : content[j].key = k => j <= i
    IN  [k \in keys |-> content[last(k)].value]

\* a complete JSON text that is not an object ("[]", "3", "null")
ArrayToken == [t |-> "array"]

\* a text json.load accepts: an object or another JSON value
ValidJson(content) == WellFormed(content) \/ content = <<ArrayToken>>

\* json.load: the mapping of an object, the value itself otherwise
JsonLoad(content) ==
    IF WellFormed(content) THEN ParseObject(content) ELSE content

\* isinstance(data, dict)
IsDict(content) == WellFormed(content)

\* the isinstance check is left out
LoadWithoutTypeCheck(file, readable) ==
    IF ~file.exists THEN EmptyMap
    ELSE IF ~readable THEN EmptyMap
    ELSE IF ~ValidJson(file.content) THEN EmptyMap
    ELSE JsonLoad(file.content)

\* utils.py 48-71. readable = FALSE: open() or read() raises OSError (or
\* UnicodeDecodeError, a ValueError)
load_records(file, readable) ==
    IF ~file.exists THEN EmptyMap
    ELSE IF ~readable THEN EmptyMap
    ELSE IF ~ValidJson(file.content) THEN EmptyMap
    ELSE IF IsDict(file.content) THEN JsonLoad(file.content)
    ELSE EmptyMap

\* json.dump straight into the destination
TempFileInPlace(path) == path

\* tempfile.NamedTemporaryFile(dir=path.parent): where json.dump writes
TempFileFor(path) == "tmp"

\* os.replace(src, dst)
os_replace(files, src, dst) ==
    IF src = dst THEN files
    ELSE [files EXCEPT ![dst] = files[src], ![src] = NoFile]

\* ================================================================ state
VARIABLES
    pc,                 \* position of the script
    run,                \* number of runs started on this data directory
    now,                \* the clock, in seconds
    fs,                 \* the files: records.json, this run's report, the temp file
    update_seen,        \* UPDATE_SEEN of this run
    case_records,       \* the in-memory store
    run_data,           \* the run report being built
    search_date_ranges, \* the windows to query
    w,                  \* position of the current window in search_date_ranges
    page,               \* number of the result page of the current window
    rowsLeft,           \* rows of the current page not read yet
    case_list,          \* cases of the current page queued for extraction
    wpath,              \* the path write_json_atomic is writing, or "none"
    loaded,             \* history: the store as loaded by this run
    disk_before,        \* history: records.json when this run started
    wbefore,            \* history: the file at wpath when write_json_atomic was called
    reads,              \* number of result rows read so far, over all runs
    page_numbers,       \* history: per case number, the well-formed rows of the current page showing it
    visits,             \* history: detail-page visits of this run, per case number
    grid_wait,          \* history: how the last wait for the results grid of the window ended
    site_actions,       \* history: what the last step that acted on the site did to it, in order
    call                \* a function called on its own: its arguments and what it returned

\* the state of the script and of its data directory
processVars == <<pc, run, now, fs, update_seen, case_records, run_data,
                 search_date_ranges, w, page, rowsLeft, case_list, wpath,
                 loaded, disk_before, wbefore, reads, page_numbers, visits,
                 grid_wait, site_actions>>

vars == <<processVars, call>>

InitialRunData ==
    [ counts   |-> [viewed |-> 0, updated |-> 0, skipped |-> 0],
      coverage |-> EmptyMap,
      results  |-> EmptyMap ]

\* no function is being called on its own
NoCall == [fn |-> "none", args |-> <<>>, done |-> FALSE, result |-> <<>>]

\* the script has not been started on the data directory yet
NotStarted ==
    /\ pc = "idle"
    /\ run = 0
    /\ now = 0
    /\ fs = [records |-> NoFile, run |-> NoFile, tmp |-> NoFile]
    /\ update_seen = FALSE
    /\ case_records = EmptyMap
    /\ run_data = InitialRunData
    /\ search_date_ranges = <<>>
    /\ w = 0
    /\ page = 0
    /\ rowsLeft = 0
    /\ case_list = <<>>
    /\ wpath = "none"
    /\ loaded = EmptyMap
    /\ disk_before = NoFile
    /\ wbefore = NoFile
    /\ reads = 0
    /\ page_numbers = [c \in Cases |-> 0]
    /\ visits = [c \in Cases |-> 0]
    /\ grid_wait = "none"
    /\ site_actions = <<>>

Init ==
    /\ NotStarted
    /\ call = NoCall

\* the clock does not run backwards
Later(t) == {t2 \in Times : t <= t2 /\ t2 <= t + 1}

\* main.py 36-121: configuration, load_records, run_data
StartRun ==
    /\ pc \in {"idle", "done", "crashed"}
    /\ run < MaxRuns
    /\ run' = run + 1
    /\ update_seen' \in BOOLEAN
    /\ now' = now
    /\ \E readable \in BOOLEAN :
          /\ (~fs.records.exists => readable)
          /\ case_records' = load_records(fs.records, readable)
    /\ loaded' = case_records'
    /\ disk_before' = fs.records
    /\ run_data' = InitialRunData
    /\ fs' = [fs EXCEPT !.run = NoFile, !.tmp = NoFile]
    /\ search_date_ranges' = <<>>
    /\ w' = 0
    /\ page' = 0
    /\ rowsLeft' = 0
    /\ case_list' = <<>>
    /\ wpath' = "none"
    /\ wbefore' = NoFile
    /\ page_numbers' = [c \in Cases |-> 0]
    /\ visits' = [c \in Cases |-> 0]
    /\ grid_wait' = "none"
    /\ site_actions' = <<>>
    /\ reads' = reads
    /\ pc' = "setup"
    /\ UNCHANGED call

\* the memory of a process that is not running
NoProcess ==
    /\ update_seen' = FALSE
    /\ case_records' = EmptyMap
    /\ run_data' = InitialRunData
    /\ search_date_ranges' = <<>>
    /\ w' = 0
    /\ page' = 0
    /\ rowsLeft' = 0
    /\ case_list' = <<>>
    /\ wpath' = "none"
    /\ loaded' = EmptyMap
    /\ disk_before' = NoFile
    /\ wbefore' = NoFile
    /\ page_numbers' = [c \in Cases |-> 0]
    /\ visits' = [c \in Cases |-> 0]
    /\ grid_wait' = "none"
    /\ site_actions' = <<>>

\* an exception nothing catches ends the script: the files stay as they are
Raise ==
    /\ pc' = "crashed"
    /\ NoProcess
    /\ UNCHANGED <<call, run, now, fs, reads>>

\* ------------------------------------------------ actions on the site
\* An action on the site: its kind, and whether sleep_randomly(min_sleep,
\* max_sleep) is called before and after it.
\* utils.py 115-142
sleepy_click(before, after) == [kind |-> "click", before |-> before, after |-> after]

\* utils.py 145-185
sleepy_select_visible_text(before, after) ==
    [kind |-> "select", before |-> before, after |-> after]

\* utils.py 188-232
sleepy_send_keys(before, after) == [kind |-> "keys", before |-> before, after |-> after]

\* main.py 125, 292: driver.get(url), called as it is
driver_get == [kind |-> "get", before |-> FALSE, after |-> FALSE]

\* main.py 388: driver.back(), called as it is
driver_back == [kind |-> "back", before |-> FALSE, after |-> FALSE]

\* search.py 16-128: what search_for_cases does to the search form; tab:
\* the Case Type tab is not the selected one and is clicked
search_for_cases(tab) ==
    << sleepy_select_visible_text(TRUE, TRUE),
       sleepy_select_visible_text(FALSE, TRUE),
       sleepy_select_visible_text(FALSE, TRUE),
       sleepy_select_visible_text(FALSE, TRUE) >>
      \o (IF tab THEN <<sleepy_click(TRUE, TRUE)>> ELSE <<>>)
      \o << sleepy_send_keys(FALSE, TRUE),
            sleepy_send_keys(FALSE, TRUE),
            sleepy_select_visible_text(FALSE, TRUE),
            sleepy_select_visible_text(FALSE, TRUE),
            sleepy_select_visible_text(FALSE, TRUE),
            sleepy_select_visible_text(FALSE, TRUE),
            sleepy_click(TRUE, TRUE) >>

Goto(next) ==
    /\ pc' = next
    /\ UNCHANGED <<call, grid_wait, run, now, fs, update_seen, case_records, run_data,
                   search_date_ranges, w, page, rowsLeft, case_list, wpath,
                   loaded, disk_before, wbefore, reads, page_numbers, visits>>

\* main.py 123-136: the site opens and human verification completes
Setup ==
    /\ pc = "setup"
    /\ site_actions' = <<driver_get>>
    /\ Goto("search")

\* main.py 124-136, 179: webdriver.Chrome() or driver.get raises, or the
\* verification wait times out, the driver is closed and the search on the
\* closed session raises
SetupFails ==
    /\ pc = "setup"
    /\ Raise

\* main.py 65: the dates the operator types, month and day with their
\* leading zeros
TypedDates == {strftime(d) : d \in Days}

\* main.py 65, 139-185: the first search over the date range the operator
\* entered, its coverage and the windows
InitialSearch ==
    /\ pc = "search"
    /\ \E start_date \in TypedDates, end_date \in TypedDates, notice \in Notices :
          /\ strptime(start_date) <= strptime(end_date)
          /\ search_date_ranges' =
                 build_search_ranges(start_date, end_date, get_search_coverage(notice))
    /\ w' = 1
    /\ pc' = "window"
    /\ \E tab \in BOOLEAN : site_actions' = search_for_cases(tab)
    /\ UNCHANGED <<call, grid_wait, run, now, fs, update_seen, case_records, run_data,
                   page, rowsLeft, case_list, wpath,
                   loaded, disk_before, wbefore, reads, page_numbers, visits>>

\* main.py 179, 196-211: a wait inside search_for_cases, or the wait for the
\* Home link or the search button, times out
SearchFails ==
    /\ \/ pc = "search"
       \/ pc = "window" /\ w <= Len(search_date_ranges) /\ Len(search_date_ranges) > 1
    /\ Raise

\* the notice on the result page of a window, read once the window is
\* narrow enough for the site to return all its cases: "2 of 2"
WindowNotices == { [present |-> TRUE, nums |-> <<2, 2>>] }

\* main.py 213-218: the coverage entry of a window
CoverageEntry(notice, search_start_date, search_end_date) ==
    [ factor     |-> get_search_coverage(notice),
      start_date |-> search_start_date,
      end_date   |-> search_end_date ]

\* main.py 192-220: the next window (searched again when the range was split)
BeginWindow ==
    /\ pc = "window"
    /\ w <= Len(search_date_ranges)
    /\ \E notice \in WindowNotices :
          run_data' = [run_data EXCEPT !.coverage =
                          Put(@, search_date_ranges[w][1],
                              CoverageEntry(notice, search_date_ranges[w][1],
                                            search_date_ranges[w][2]))]
    /\ IF Len(search_date_ranges) > 1
       THEN \E tab \in BOOLEAN :
               site_actions' = <<sleepy_click(TRUE, TRUE), sleepy_click(TRUE, TRUE)>>
                                  \o search_for_cases(tab)
       ELSE site_actions' = site_actions
    /\ page' = 1
    /\ pc' = "grid"
    /\ grid_wait' = "none"
    /\ UNCHANGED <<call, run, now, fs, update_seen, case_records,
                   search_date_ranges, w, rowsLeft, case_list, wpath,
                   loaded, disk_before, wbefore, reads, page_numbers, visits>>

\* main.py 192: the windows are exhausted, the loop is left
EndCrawl ==
    /\ pc = "window"
    /\ w > Len(search_date_ranges)
    /\ search_date_ranges' = <<>>
    /\ w' = 0
    /\ page' = 0
    /\ pc' = "shutdown"
    /\ grid_wait' = "none"
    /\ site_actions' = <<>>
    /\ UNCHANGED <<call, run, now, fs, update_seen, case_records, run_data,
                   rowsLeft, case_list, wpath,
                   loaded, disk_before, wbefore, reads, page_numbers, visits>>

\* records.json is loaded again for every page of results
GridFoundReloads ==
    /\ pc = "grid"
    /\ rowsLeft' \in 0..(MaxReads - reads)
    /\ case_list' = <<>>
    /\ page_numbers' = [c \in Cases |-> 0]
    /\ pc' = "rows"
    /\ grid_wait' = "rendered"
    /\ case_records' = load_records(fs.records, TRUE)
    /\ UNCHANGED <<call, site_actions, run, now, fs, update_seen, run_data,
                   search_date_ranges, w, page, wpath,
                   loaded, disk_before, wbefore, reads, visits>>

\* main.py 222-228, 234: the grid rendered, with its rows
GridFound ==
    /\ pc = "grid"
    /\ rowsLeft' \in 0..(MaxReads - reads)
    /\ case_list' = <<>>
    /\ page_numbers' = [c \in Cases |-> 0]
    /\ pc' = "rows"
    /\ grid_wait' = "rendered"
    /\ UNCHANGED <<call, site_actions, run, now, fs, update_seen, case_records, run_data,
                   search_date_ranges, w, page, wpath,
                   loaded, disk_before, wbefore, reads, visits>>

\* a timeout that leaves the window to be queried again
GridTimeoutSameWindow ==
    /\ pc = "grid"
    /\ w' = w
    /\ pc' = "window"
    /\ grid_wait' = "timeout"
    /\ UNCHANGED <<call, site_actions, run, now, fs, update_seen, case_records, run_data,
                   search_date_ranges, page, rowsLeft, case_list, wpath,
                   loaded, disk_before, wbefore, reads, page_numbers, visits>>

\* main.py 229-232: no grid within fast_timeout, the window is over
GridTimeout ==
    /\ pc = "grid"
    /\ w' = w + 1
    /\ pc' = "window"
    /\ grid_wait' = "timeout"
    /\ UNCHANGED <<call, site_actions, run, now, fs, update_seen, case_records, run_data,
                   search_date_ranges, page, rowsLeft, case_list, wpath,
                   loaded, disk_before, wbefore, reads, page_numbers, visits>>

\* a row with every column main.py reads and a link in its case-number cell
WellFormedRow(row) == Len(row.cells) >= 7 /\ row.link

\* RowOutcome without the test of update_seen: a seen case is always queued
RowOutcomeAlwaysQueue(row, records, refresh, t) ==
    IF Len(row.cells) < 4 THEN <<>>
    ELSE LET case_number == row.cells[4] IN
         IF lookup_court_case(records, case_number)
         THEN <<SeenCourtCase(records[case_number], t)>>
         ELSE IF Len(row.cells) < 7 THEN <<>>
         ELSE <<NewCourtCase(case_number, row.cells, t)>>

\* main.py 235-276: what reading one row appends to case_list
RowOutcome(row, records, refresh, t) ==
    IF Len(row.cells) < 4 THEN <<>>                      \* IndexError
    ELSE LET case_number == row.cells[4] IN
         IF lookup_court_case(records, case_number)
         THEN IF refresh THEN <<SeenCourtCase(records[case_number], t)>> ELSE <<>>
         ELSE IF Len(row.cells) < 7 THEN <<>>            \* IndexError
         ELSE <<NewCourtCase(case_number, row.cells, t)>>

\* main.py 235-276: one row of the page
ReadRow ==
    /\ pc = "rows"
    /\ rowsLeft > 0
    /\ \E row \in Rows :
          /\ Len(row.cells) >= 4 => row.link
          /\ case_list' = case_list \o RowOutcome(row, case_records, update_seen, now)
          /\ page_numbers' = IF WellFormedRow(row)
                             THEN [page_numbers EXCEPT ![row.cells[4]] = @ + 1]
                             ELSE page_numbers
    /\ rowsLeft' = rowsLeft - 1
    /\ reads' = reads + 1
    /\ UNCHANGED <<call, site_actions, grid_wait, pc, run, now, fs, update_seen, case_records, run_data,
                   search_date_ranges, w, page, wpath,
                   loaded, disk_before, wbefore, visits>>

\* main.py 240, 274: the case-number cell holds no link; find_element raises
\* NoSuchElementException, which the row's except clause does not name
RowLinkMissing ==
    /\ pc = "rows"
    /\ rowsLeft > 0
    /\ \E row \in Rows : Len(row.cells) >= 4 /\ ~row.link
    /\ Raise

\* main.py 278-283
CountDuplicates ==
    /\ pc = "rows"
    /\ rowsLeft = 0
    /\ run_data' = [run_data EXCEPT !.counts.skipped = @ + duplicate_case_count(case_list)]
    /\ pc' = "extract"
    /\ UNCHANGED <<call, site_actions, grid_wait, run, now, fs, update_seen, case_records,
                   search_date_ranges, w, page, rowsLeft, case_list, wpath,
                   loaded, disk_before, wbefore, reads, page_numbers, visits>>

\* the extraction loop without its skip
AlreadyRecordedNever(court_case, results) == FALSE

\* main.py 288: court_case.case_number in run_data["results"]
AlreadyRecorded(court_case, results) == court_case.case_number \in DOMAIN results

\* main.py 286-289: the case was already recorded in this run
SkipRecorded ==
    /\ pc = "extract"
    /\ case_list # <<>>
    /\ AlreadyRecorded(Head(case_list), run_data.results)
    /\ case_list' = Tail(case_list)
    /\ UNCHANGED <<call, site_actions, grid_wait, pc, run, now, fs, update_seen, case_records, run_data,
                   search_date_ranges, w, page, rowsLeft, wpath,
                   loaded, disk_before, wbefore, reads, page_numbers, visits>>

\* main.py 294-373: the body of the loop for one queued case: extraction,
\* promotion, and the case recorded in the result set and in the store
RecordCase(court_case, detail, refresh, t, data, records) ==
    LET case_dict == Promote(ExtractDetails(court_case, detail), refresh, t)
    IN  [ run_data     |-> [data EXCEPT !.results = Merge(@, case_dict)],
          case_records |-> Merge(records, case_dict) ]

\* ------------------------------------------- tables of the detail page
\* schemas.py 35-51: the fields of the CourtCase dataclass
CourtCaseFields ==
    { "case_number", "status", "file_date", "primary_party", "defendant", "plaintiff",
      "init_action", "address", "zipcode", "created_at", "updated_at" }

\* schemas.py 53-61: asdict(self), the dataclass fields of the object and
\* nothing else that was set on it
to_dict(obj) == [f \in CourtCaseFields |-> obj[f]]

\* a row of a table of the detail page: the texts of its n cells, the first
\* telling the rows of a table apart
TableRow(n, pos) == [i \in 1..n |-> IF i = 1 THEN <<"r", pos>> ELSE <<" ", "c">>]

\* the cell counts a table row may have
CellCounts == {1, 2, 5}

\* a table of the detail page: absent (the wait times out), or its rows
Tables ==
    {[present |-> FALSE, rows |-> <<>>]}
      \cup { [present |-> TRUE, rows |-> [pos \in 1..len |-> TableRow(ns[pos], pos)]] :
                 len \in 0..2, ns \in [1..2 -> CellCounts] }

RECURSIVE TableEntries(_, _)
\* crook.py 328-339, 352-363, 376-397: the entries of the rows with at
\* least `required` cells, each the stripped texts of its first `required` cells
TableEntries(rows, required) ==
    IF rows = <<>> THEN <<>>
    ELSE LET cells == Head(rows)
         IN  (IF Len(cells) >= required
              THEN << [i \in 1..required |-> Strip(cells[i])] >>
              ELSE <<>>)
             \o TableEntries(Tail(rows), required)

\* crook.py 322-402: the three tables, each set as an attribute of the case
\* object; a table that is absent gives the empty list
ExtractTables(court_case, docket, disposition, judgment) ==
    [ docket_entries |-> IF docket.present THEN TableEntries(docket.rows, 2) ELSE <<>>,
      dispositions   |-> IF disposition.present
                         THEN TableEntries(disposition.rows, 2) ELSE <<>>,
      judgments      |-> IF judgment.present THEN TableEntries(judgment.rows, 5) ELSE <<>> ]
      @@ court_case

\* crook.py 322-418: the tables are extracted and the case recorded through
\* to_dict()
RecordWithTables(court_case, docket, disposition, judgment, records) ==
    LET case_dict == to_dict(ExtractTables(court_case, docket, disposition, judgment))
    IN  Merge(records, case_dict)

\* main.py 292-388: the detail page is visited, extracted and the case recorded
ExtractAndRecord ==
    /\ pc = "extract"
    /\ case_list # <<>>
    /\ ~AlreadyRecorded(Head(case_list), run_data.results)
    /\ now' \in Later(now)
    /\ \E detail \in DetailPages :
          LET recorded == RecordCase(Head(case_list), detail, update_seen, now',
                                     run_data, case_records)
          IN  /\ run_data' = recorded.run_data
              /\ case_records' = recorded.case_records
    /\ visits' = [visits EXCEPT ![Head(case_list).case_number] = @ + 1]
    /\ case_list' = Tail(case_list)
    /\ site_actions' = <<driver_get, driver_back>>
    /\ UNCHANGED <<call, grid_wait, pc, run, fs, update_seen,
                   search_date_ranges, w, page, rowsLeft, wpath,
                   loaded, disk_before, wbefore, reads, page_numbers>>

\* main.py 292, 388: driver.get or driver.back raises (the session is lost)
DetailVisitFails ==
    /\ pc = "extract"
    /\ case_list # <<>>
    /\ ~AlreadyRecorded(Head(case_list), run_data.results)
    /\ Raise

\* main.py 390-396: the next-page control is clicked
NextPage ==
    /\ pc = "extract"
    /\ case_list = <<>>
    /\ page < MaxPages
    /\ page' = page + 1
    /\ page_numbers' = [c \in Cases |-> 0]
    /\ pc' = "grid"
    /\ grid_wait' = "none"
    /\ site_actions' = <<sleepy_click(TRUE, TRUE)>>
    /\ UNCHANGED <<call, run, now, fs, update_seen, case_records, run_data,
                   search_date_ranges, w, rowsLeft, case_list, wpath,
                   loaded, disk_before, wbefore, reads, visits>>

\* the wait for the next-page control raises and nothing catches it
ResultsExhaustedRaises ==
    /\ pc = "extract"
    /\ case_list = <<>>
    /\ Raise

\* main.py 397-400: no next-page control within timeout, the window is over
ResultsExhausted ==
    /\ pc = "extract"
    /\ case_list = <<>>
    /\ w' = w + 1
    /\ page_numbers' = [c \in Cases |-> 0]
    /\ pc' = "window"
    /\ UNCHANGED <<call, site_actions, grid_wait, run, now, fs, update_seen, case_records, run_data,
                   search_date_ranges, page, rowsLeft, case_list, wpath,
                   loaded, disk_before, wbefore, reads, visits>>

\* every result is counted as new
FinalCountsAllNew(data) ==
    [ new     |-> Cardinality(DOMAIN data.results),
      updated |-> StatusCount(data.results, "updated"),
      skipped |-> data.counts.skipped ]

\* main.py 415-428
FinalCounts(data) ==
    [ new     |-> StatusCount(data.results, "new"),
      updated |-> StatusCount(data.results, "updated"),
      skipped |-> data.counts.skipped ]

\* the store is written first (and the report not at all)
ShutdownStoreFirst ==
    /\ pc = "shutdown"
    /\ run_data' = [run_data EXCEPT !.counts = FinalCounts(run_data)]
    /\ wpath' = "records"
    /\ wbefore' = fs.records
    /\ pc' = "write_open"
    /\ UNCHANGED <<call, site_actions, grid_wait, run, now, fs, update_seen, case_records,
                   search_date_ranges, w, page, rowsLeft, case_list,
                   loaded, disk_before, reads, page_numbers, visits>>

\* main.py 402-444: the driver is closed, the counts are computed and
\* write_json_atomic(run_path, run_data) is called
Shutdown ==
    /\ pc = "shutdown"
    /\ run_data' = [run_data EXCEPT !.counts = FinalCounts(run_data)]
    /\ wpath' = "run"
    /\ wbefore' = fs.run
    /\ pc' = "write_open"
    /\ UNCHANGED <<call, site_actions, grid_wait, run, now, fs, update_seen, case_records,
                   search_date_ranges, w, page, rowsLeft, case_list,
                   loaded, disk_before, reads, page_numbers, visits>>

\* main.py 403: driver.close() raises
CloseFails ==
    /\ pc = "shutdown"
    /\ Raise

\* what the current call of write_json_atomic serialises
WriteData == IF wpath = "run" THEN SerializeRun(run_data) ELSE Serialize(case_records)

\* utils.py 320-321: the temporary file is created
WriteOpen ==
    /\ pc = "write_open"
    /\ fs' = [fs EXCEPT ![TempFileFor(wpath)] = EmptyFile]
    /\ pc' = "write_dump"
    /\ UNCHANGED <<call, site_actions, grid_wait, run, now, update_seen, case_records, run_data,
                   search_date_ranges, w, page, rowsLeft, case_list, wpath,
                   loaded, disk_before, wbefore, reads, page_numbers, visits>>

\* utils.py 322: json.dump writes the whole text
WriteDump ==
    /\ pc = "write_dump"
    /\ fs[TempFileFor(wpath)].content # WriteData
    /\ fs' = [fs EXCEPT ![TempFileFor(wpath)].content = WriteData]
    /\ UNCHANGED <<call, site_actions, grid_wait, pc, run, now, update_seen, case_records, run_data,
                   search_date_ranges, w, page, rowsLeft, case_list, wpath,
                   loaded, disk_before, wbefore, reads, page_numbers, visits>>

\* utils.py 322-324: json.dump, flush or fsync raises after part of the text
\* was written; the with block closes the file and the exception leaves main.py
DumpFails ==
    /\ pc = "write_dump"
    /\ fs[TempFileFor(wpath)].content # WriteData
    /\ \E n \in 0..(Len(WriteData) - 1) :
          fs' = [fs EXCEPT ![TempFileFor(wpath)].content = SubSeq(WriteData, 1, n)]
    /\ pc' = "crashed"
    /\ NoProcess
    /\ UNCHANGED <<call, run, now, reads>>

\* utils.py 323-326, main.py 445-453: the dump is complete; flush, fsync,
\* close and os.replace, then the caller goes on: to the store after the
\* run report, to the end of the script after the store
WriteReplace ==
    /\ pc = "write_dump"
    /\ fs[TempFileFor(wpath)].content = WriteData
    /\ fs' = os_replace(fs, TempFileFor(wpath), wpath)
    /\ IF wpath = "run"
       THEN /\ wpath' = "records"
            /\ wbefore' = fs'.records
            /\ pc' = "write_open"
            /\ UNCHANGED <<update_seen, case_records, run_data,
                           search_date_ranges, w, page, rowsLeft, case_list,
                           loaded, disk_before, page_numbers, visits, grid_wait,
                           site_actions>>
       ELSE /\ pc' = "done"
            /\ NoProcess
    /\ UNCHANGED <<call, run, now, reads>>

\* utils.py 320-321, 326: mkdir, the creation of the temporary file or
\* os.replace raises (no space, no permission)
WriteFails ==
    /\ \/ pc = "write_open"
       \/ pc = "write_dump" /\ fs[TempFileFor(wpath)].content = WriteData
    /\ Raise

Next ==
    \/ StartRun
    \/ Setup
    \/ SetupFails
    \/ InitialSearch
    \/ SearchFails
    \/ BeginWindow
    \/ EndCrawl
    \/ GridFound
    \/ GridTimeout
    \/ ReadRow
    \/ RowLinkMissing
    \/ CountDuplicates
    \/ SkipRecorded
    \/ ExtractAndRecord
    \/ DetailVisitFails
    \/ NextPage
    \/ ResultsExhausted
    \/ Shutdown
    \/ CloseFails
    \/ WriteOpen
    \/ WriteDump
    \/ DumpFails
    \/ WriteReplace
    \/ WriteFails

Spec == Init /\ [][Next]_vars

\* ============================================= functions on their own
\* The functions of src/search.py and src/utils.py called on their own, on
\* arguments of every shape, outside a run of the script.
Coverages ==
    { <<0, 1>>, <<1, 2>>, <<998, 1000>>, <<999, 1000>>, <<1999, 2000>>,
      <<1, 1>>, <<3, 2>>, <<999999998, 1000000000>>, <<999999999, 1000000000>> }

\* the texts of at most n characters over the characters the separators
\* of parse_init_action are made of, and one other
TextChars == {" ", "-", "a"}
Texts(n) == UNION {[1..k -> TextChars] : k \in 0..n}

\* what the operator types during one call of prompt_for_date_range: any
\* lines for two rounds, and a correct pair of dates ready for a third
Stdins ==
    { first \o <<[text |-> strftime(1), blanks |-> FALSE],
                 [text |-> strftime(1), blanks |-> FALSE]>> :
          first \in [1..(2 * Attempts) -> TypedLines] }

\* the mappings a records.json may hold
StoredMaps ==
    UNION { [S -> {NewCourtCase(k, FullCells(k), 0) : k \in Cases}] : S \in SUBSET Cases }

\* the states records.json may be found in: missing, empty, a JSON value
\* that is no object, a written mapping, or a written mapping cut short
StoreFiles ==
    {NoFile, EmptyFile, [exists |-> TRUE, content |-> <<ArrayToken>>]}
      \cup UNION { { [exists |-> TRUE, content |-> SubSeq(Serialize(m), 1, n)] :
                        n \in 1..Len(Serialize(m)) } : m \in StoredMaps }

\* a record of the store from an earlier run, with or without the fields
\* of its detail page
StoredRecords(k) ==
    { NewCourtCase(k, FullCells(k), 0),
      ExtractDetails(NewCourtCase(k, FullCells(k), 0),
                     [address |-> [present |-> TRUE, rows |-> <<StreetRow, PlaceRow>>],
                      parties |-> [present |-> TRUE,
                                   blocks |-> <<PlaintiffBlock, DefendantBlock>>]]) }

\* a case as main.py 252-270 queues it, with the store it was looked up in:
\* a case not in the store, or (when seen cases are refreshed) one rebuilt
\* from its stored record
QueuedCases ==
    { [court_case |-> NewCourtCase(k, FullCells(k), 1), records |-> EmptyMap,
       refresh |-> r] : k \in Cases, r \in BOOLEAN }
      \cup UNION { { [court_case |-> SeenCourtCase(stored, 1),
                      records |-> Put(EmptyMap, k, stored),
                      refresh |-> TRUE] : stored \in StoredRecords(k) } : k \in Cases }

\* the result rows that name case k: the rows of its own listing, and a
\* row whose other cells show the texts of another case
RowsNaming(k) ==
    { r \in Rows : Len(r.cells) >= 4 /\ r.cells[4] = k /\ r.link }
      \cup { [cells |-> [FullCells(other) EXCEPT ![4] = k], link |-> TRUE] :
                 other \in Cases \ {k} }

\* main.py 246-257, 294-373: a case of the store met again with refresh on:
\* the store it is in, the row that names it and its detail page
Refreshes ==
    UNION { { [records |-> Put(EmptyMap, k, stored), row |-> r, detail |-> d] :
                 stored \in StoredRecords(k), r \in RowsNaming(k), d \in AllDetailPages } :
            k \in Cases }

\* ------------------------------------------- the command console
\* the longest sequence of commands typed at the console
MaxTyped == 4

\* the commands the operator types
TypedCommands == {"EXIT", "CLOSE", "BREAK", "OPEN_URL", "open_url", "BOGUS"}

\* str.upper() of a typed command
Upper(cmd) == IF cmd = "open_url" THEN "OPEN_URL" ELSE cmd

\* registry.py 9-11: the names of the registered commands
COMMAND_REGISTRY == {"OPEN_URL"}

\* registry.py 14-28: the function of the command, KeyError when there is none
lookup_command(cmd) ==
    IF Upper(cmd) \in COMMAND_REGISTRY THEN Upper(cmd) ELSE "KeyError"

\* core.py 47-77: KeyError from the lookup goes to the caller; a command that
\* is found is run and True or False returned
dispatch_command(cmd, runs) ==
    IF lookup_command(cmd) = "KeyError" THEN "KeyError"
    ELSE IF runs THEN "True" ELSE "False"

\* the truth value of a Python string
Truthy(str) == str # ""

\* control.py 24: cmd.upper is the bound method, not its result, and a
\* method never equals a string
UpperMethodEquals(cmd, word) == FALSE

\* control.py 24: cmd.upper == "EXIT" or "CLOSE" or "BREAK"
ShutdownTyped(cmd) ==
    UpperMethodEquals(cmd, "EXIT") \/ Truthy("CLOSE") \/ Truthy("BREAK")

RECURSIVE ControlLoop(_, _, _)
\* control.py 20-47: the loop over the typed commands; the log has, for every
\* command read, whether it was passed to dispatch_command and the counter
\* after it. keep_alive stays TRUE when the console waits for more input
ControlLoop(stdin, invalid_cmd_ctr, log) ==
    IF stdin = <<>>
    THEN [keep_alive |-> TRUE, invalid_cmd_ctr |-> invalid_cmd_ctr, log |-> log]
    ELSE LET cmd == Head(stdin)
             Logged(passed, ctr) == log \o << [cmd |-> cmd, passed |-> passed, ctr |-> ctr] >>
         IN  IF ShutdownTyped(cmd)
             THEN [keep_alive |-> FALSE, invalid_cmd_ctr |-> invalid_cmd_ctr,
                   log |-> Logged(FALSE, invalid_cmd_ctr)]
             ELSE IF dispatch_command(cmd, TRUE) # "KeyError"
             THEN ControlLoop(Tail(stdin), 0, Logged(TRUE, 0))
             ELSE IF invalid_cmd_ctr + 1 > 2
             THEN [keep_alive |-> FALSE, invalid_cmd_ctr |-> invalid_cmd_ctr + 1,
                   log |-> Logged(TRUE, invalid_cmd_ctr + 1)]
             ELSE ControlLoop(Tail(stdin), invalid_cmd_ctr + 1,
                              Logged(TRUE, invalid_cmd_ctr + 1))

\* control.py 16-20: the console from its start
control(stdin) == ControlLoop(stdin, 0, <<>>)

\* the sequences of commands typed at the console
TypedSequences == UNION { [1..n -> TypedCommands] : n \in 0..MaxTyped }

Pending(fn, args) == [fn |-> fn, args |-> args, done |-> FALSE, result |-> <<>>]

CallInit ==
    /\ NotStarted
    /\ \/ call \in {Pending("build_search_ranges", <<s, e, c>>) :
                       s \in DateStrings, e \in DateStrings, c \in Coverages}
       \/ call \in {Pending("get_search_coverage", <<n>>) : n \in Notices}
       \/ call \in {Pending("parse_init_action", <<t>>) : t \in Texts(MaxText)}
       \/ call \in {Pending("prompt_for_date_range", <<stdin>>) : stdin \in Stdins}
       \/ call \in {Pending("load_records", <<f, readable>>) :
                       f \in StoreFiles, readable \in BOOLEAN}
       \/ call \in {Pending("refresh_case", <<x.row, x.records, x.detail, 1, MaxTime>>) :
                       x \in Refreshes}
       \/ call \in {Pending("control", <<stdin>>) : stdin \in TypedSequences}
       \/ call \in {Pending("dispatch_command", <<cmd, runs>>) :
                       cmd \in TypedCommands, runs \in BOOLEAN}
       \/ call \in {Pending("record_with_tables",
                               <<NewCourtCase(1, FullCells(1), 1), d, p, j, EmptyMap>>) :
                       d \in Tables, p \in Tables, j \in Tables}
       \/ call \in {Pending("record_case",
                               <<q.court_case, d, q.refresh, MaxTime, InitialRunData, q.records>>) :
                       q \in QueuedCases, d \in AllDetailPages}

Return(value) ==
    /\ ~call.done
    /\ call' = [call EXCEPT !.done = TRUE, !.result = value]
    /\ UNCHANGED processVars

Call_build_search_ranges ==
    /\ call.fn = "build_search_ranges"
    /\ Return(build_search_ranges(call.args[1], call.args[2], call.args[3]))

Call_get_search_coverage ==
    /\ call.fn = "get_search_coverage"
    /\ Return(get_search_coverage(call.args[1]))

Call_parse_init_action ==
    /\ call.fn = "parse_init_action"
    /\ Return(parse_init_action(call.args[1]))

Call_prompt_for_date_range ==
    /\ call.fn = "prompt_for_date_range"
    /\ Return(prompt_for_date_range(call.args[1]))

Call_load_records ==
    /\ call.fn = "load_records"
    /\ Return(load_records(call.args[1], call.args[2]))

Call_record_case ==
    /\ call.fn = "record_case"
    /\ Return(RecordCase(call.args[1], call.args[2], call.args[3],
                         call.args[4], call.args[5], call.args[6]))

\* main.py 235-276, 294-373: the row is read at time args[4], the case it
\* queues is extracted and recorded at time args[5]
Call_refresh_case ==
    /\ call.fn = "refresh_case"
    /\ LET queued == RowOutcome(call.args[1], call.args[2], TRUE, call.args[4])
       IN  Return(IF queued = <<>> THEN <<>>
                  ELSE RecordCase(queued[1], call.args[3], TRUE, call.args[5],
                                  InitialRunData, call.args[2]))

Call_record_with_tables ==
    /\ call.fn = "record_with_tables"
    /\ Return(RecordWithTables(call.args[1], call.args[2], call.args[3],
                               call.args[4], call.args[5]))

Call_control ==
    /\ call.fn = "control"
    /\ Return(control(call.args[1]))

Call_dispatch_command ==
    /\ call.fn = "dispatch_command"
    /\ Return(dispatch_command(call.args[1], call.args[2]))

CallNext ==
    \/ Call_build_search_ranges
    \/ Call_get_search_coverage
    \/ Call_parse_init_action
    \/ Call_prompt_for_date_range
    \/ Call_load_records
    \/ Call_record_case
    \/ Call_refresh_case
    \/ Call_record_with_tables
    \/ Call_control
    \/ Call_dispatch_command

CallSpec == CallInit /\ [][CallNext]_vars

\* ============================================================== claims
Running == pc \notin {"idle", "done", "crashed"}
Results == run_data.results

\* what a reader of the file finds under each key
FileMap(file) ==
    IF file.exists /\ WellFormed(file.content) THEN ParseObject(file.content) ELSE EmptyMap

\* the file is a complete JSON object holding every record of results
Persisted(file, results) ==
    /\ file.exists
    /\ WellFormed(file.content)
    /\ \A k \in DOMAIN results :
          k \in DOMAIN FileMap(file) /\ FileMap(file)[k] = results[k]

\* C1: whenever a run ends - by completing, or by an exception raised while
\* querying, paginating or extracting - the run report and records.json have
\* been written and hold every record recorded so far.
C1_CleanupOnEveryExit ==
    [][ ( \/ pc' = "done"
          \/ pc' = "crashed" /\ pc \in {"search", "window", "grid", "rows", "extract"} )
        => /\ Persisted(fs'.run, Results)
           /\ Persisted(fs'.records, Results) ]_vars

\* C2: while write_json_atomic(path, data) runs, every step leaves the file
\* at path with the content it had before the call, except the final rename,
\* which happens only once the whole text is in the temporary file and leaves
\* exactly the new text at path.
C2_AtomicWrite ==
    [][ wpath # "none"
        => \/ fs'[wpath] = wbefore
           \/ /\ fs["tmp"].content = WriteData
              /\ fs'[wpath] = [exists |-> TRUE, content |-> WriteData] ]_vars

\* C2 witness: the store write of a later run was interrupted in the middle
\* of the dump, the store of the earlier run is still in place.
C2_Witness ==
    /\ pc = "crashed"
    /\ fs.run.exists
    /\ fs.tmp.exists /\ fs.tmp.content # <<>> /\ ~WellFormed(fs.tmp.content)
    /\ fs.records.exists /\ WellFormed(fs.records.content)
    /\ DOMAIN FileMap(fs.records) # {}

\* C3: in a run with refresh-seen disabled, a case that was in the store has
\* no entry in the result set, is not queued for extraction, its detail page
\* is not visited and its store entry is the one that was loaded.
C3_SeenCaseExcluded ==
    (Running /\ ~update_seen) =>
        \A k \in DOMAIN loaded :
            /\ k \notin DOMAIN Results
            /\ \A i \in 1..Len(case_list) : case_list[i].case_number # k
            /\ visits[k] = 0
            /\ k \in DOMAIN case_records /\ case_records[k] = loaded[k]

\* C3 witness: the rows of a page were read, one of them a case of the store
C3_Witness ==
    /\ pc = "extract"
    /\ ~update_seen
    /\ \E k \in DOMAIN loaded : page_numbers[k] >= 1

\* C4: a step of a run never changes the result-set entry or the store entry
\* of a case already recorded in this run, and never visits its detail page
\* again.
C4_RecordedOnce ==
    [][ (Running /\ pc' \notin {"done", "crashed"})
        => \A k \in DOMAIN Results :
              /\ k \in DOMAIN run_data'.results
              /\ run_data'.results[k] = Results[k]
              /\ case_records'[k] = case_records[k]
              /\ visits'[k] = visits[k] ]_vars

\* C4 witness: with refresh enabled, a case shown twice on a page was
\* recorded by its first row and its second row has been passed over
C4_Witness ==
    /\ pc = "extract"
    /\ case_list = <<>>
    /\ update_seen
    /\ \E k \in DOMAIN Results : page_numbers[k] >= 2 /\ visits[k] = 1

\* the occurrences beyond the first, over the case numbers of the page
RECURSIVE ExtraOccurrences(_, _)
ExtraOccurrences(counts, S) ==
    IF S = {} THEN 0
    ELSE LET k == CHOOSE x \in S : TRUE
         IN  (IF counts[k] >= 2 THEN counts[k] - 1 ELSE 0) + ExtraOccurrences(counts, S \ {k})

\* C5: when the rows of a page have been read, the skipped count grows by
\* k - 1 for every case number shown k >= 2 times on the page, and no case
\* is extracted more than once.
C5_DuplicateAccounting ==
    [][ (pc = "rows" /\ pc' = "extract")
        => /\ run_data'.counts.skipped
                = run_data.counts.skipped + ExtraOccurrences(page_numbers, Cases)
           /\ \A k \in Cases : visits[k] <= 1 ]_vars

\* C6: a case that was not in the store when the run loaded it is recorded
\* with status new and created_at = updated_at, the same record in the
\* result set and in the store.
C6_NewCase ==
    Running =>
        \A k \in DOMAIN Results :
            k \notin DOMAIN loaded =>
                /\ Results[k].status = "new"
                /\ Results[k].created_at = Results[k].updated_at
                /\ k \in DOMAIN case_records /\ case_records[k] = Results[k]

\* C6 witness: a new case was recorded after its detail page took time to load
C6_Witness ==
    /\ Running
    /\ \E k \in DOMAIN Results :
          k \notin DOMAIN loaded /\ visits[k] = 1 /\ Results[k].created_at < now

\* C7: with refresh-seen enabled, the step that records a case of the loaded
\* store visits its detail page and records it with status updated and the
\* time of recording as updated_at, the same record in the store and in the
\* result set.
C7_RefreshedCase ==
    [][ (Running /\ update_seen)
        => \A k \in DOMAIN loaded :
              (k \notin DOMAIN Results /\ k \in DOMAIN run_data'.results)
              => /\ run_data'.results[k].status = "updated"
                 /\ run_data'.results[k].updated_at = now'
                 /\ case_records'[k] = run_data'.results[k]
                 /\ visits'[k] = visits[k] + 1 ]_vars

\* C7 witness: a case of the loaded store was recorded as updated, later
\* than the store had it
C7_Witness ==
    /\ Running
    /\ update_seen
    /\ \E k \in DOMAIN loaded :
          /\ k \in DOMAIN Results
          /\ Results[k].status = "updated"
          /\ Results[k].updated_at > loaded[k].updated_at

\* a record as a row read now would give it
SampleRecord(k) == NewCourtCase(k, FullCells(k), now)

\* C8: merging a record twice gives the store that merging it once gives;
\* after a merge the entry under the record's case_number is the whole
\* record and every other entry is as before; merging a recorded case again
\* changes nothing.
C8_MergeIdempotent ==
    /\ \A k \in Cases :
          LET r == SampleRecord(k)
              once == Merge(case_records, r)
          IN  /\ Merge(once, r) = once
              /\ DOMAIN once = DOMAIN case_records \cup {k}
              /\ once[k] = r
              /\ \A j \in DOMAIN case_records \ {k} : once[j] = case_records[j]
    /\ \A k \in DOMAIN Results : Merge(case_records, Results[k]) = case_records

\* C8 witness: the store holds an entry that a merge replaced, with an
\* address the sample record does not have
C8_Witness ==
    \E k \in DOMAIN Results :
        /\ k \in DOMAIN loaded
        /\ Results[k].status = "updated"
        /\ case_records[k] # loaded[k]
        /\ case_records[k].address # None

\* every key holds a record with that case_number
KeysMatch(map) == \A k \in DOMAIN map : map[k].case_number = k

\* no two items of the text have the same key
UniqueItems(content) ==
    \A i, j \in 1..Len(content) :
        (content[i].t = "item" /\ content[j].t = "item" /\ i # j)
        => content[i].key # content[j].key

\* C9: in the store in memory and in records.json, the entry under key k
\* has case_number k, and no case_number has two entries.
C9_UniqueCaseNumber ==
    /\ KeysMatch(case_records)
    /\ \A j, k \in DOMAIN case_records :
          case_records[j].case_number = case_records[k].case_number => j = k
    /\ UniqueItems(fs.records.content)
    /\ KeysMatch(FileMap(fs.records))

\* C9 witness: after two runs records.json holds two cases, one of them
\* merged again by the second run
C9_Witness ==
    /\ run = 2
    /\ pc = "done"
    /\ Cardinality(DOMAIN FileMap(fs.records)) = 2
    /\ \E k \in DOMAIN FileMap(fs.records) : FileMap(fs.records)[k].status = "updated"

\* C10: no step of a run, completed or failed, takes a case_number out of
\* records.json that was in it when the run started.
C10_StoreOnlyGrows ==
    [][ Running => DOMAIN FileMap(disk_before) \subseteq DOMAIN FileMap(fs'.records) ]_vars

\* C11: at every point of a run every entry of the result set is in the store
\* in memory under the same case_number with the same content; and once the
\* run is over, every case the written run report references is in
\* records.json with the same content.
C11_ResultsInStore ==
    /\ Running =>
          \A k \in DOMAIN Results :
              k \in DOMAIN case_records /\ case_records[k] = Results[k]
    /\ pc \in {"done", "crashed"} =>
          \A k \in DOMAIN FileMap(fs.run) :
              /\ k \in DOMAIN FileMap(fs.records)
              /\ FileMap(fs.records)[k] = FileMap(fs.run)[k]

\* the fraction is within 1e-9 of 1.0, or larger
NearOne(coverage) ==
    \/ coverage[1] >= coverage[2]
    \/ coverage[2] - coverage[1] <= coverage[2] \div 1000000000

\* C12: build_search_ranges(start, end, coverage) returns the single window
\* (start, end) when the coverage is within 1e-9 of 1.0 or larger, and for
\* every coverage below that and start < end it returns the split range, which
\* is not the single window.
C12_SingleWindowIffNearOne ==
    (call.fn = "build_search_ranges" /\ call.done) =>
        LET start_date == call.args[1]
            end_date == call.args[2]
            coverage == call.args[3]
        IN  /\ NearOne(coverage) => call.result = << <<start_date, end_date>> >>
            /\ (~NearOne(coverage) /\ strptime(start_date) < strptime(end_date))
                  => /\ call.result # << <<start_date, end_date>> >>
                     /\ Len(call.result) > 1

\* the call was a build_search_ranges that split its range: the coverage
\* was below the threshold of the code
Split == call.fn = "build_search_ranges" /\ call.done /\ ~GoodEnough(call.args[3])

\* C13: when build_search_ranges splits a range with start <= end, the
\* result holds, for every day d from start to end in ascending order, the
\* one window (d, d): as many windows as days, the i-th the single-day
\* window of the i-th day, both end days included.
C13_OneWindowPerDay ==
    (Split /\ strptime(call.args[1]) <= strptime(call.args[2])) =>
        LET first == strptime(call.args[1])
            last == strptime(call.args[2])
        IN  /\ Len(call.result) = last - first + 1
            /\ \A i \in 1..Len(call.result) :
                  /\ call.result[i][1] = call.result[i][2]
                  /\ strptime(call.result[i][1]) = first + i - 1

\* C13 witness: a range of three days was split
C13_Witness ==
    /\ Split
    /\ strptime(call.args[2]) = strptime(call.args[1]) + 2
    /\ Len(call.result) = 3

\* C14 as stated: for every date d and every coverage,
\* build_search_ranges(d, d, coverage) returns exactly [(d, d)].
C14_SingleDayIdentity ==
    (call.fn = "build_search_ranges" /\ call.done /\ call.args[1] = call.args[2])
        => call.result = << <<call.args[1], call.args[2]>> >>

\* C14 amended: build_search_ranges(d, d, coverage) returns exactly one
\* window, of the day of d alone; it is (d, d) itself for every coverage when
\* d is written with its leading zeros, and for a d written without them it
\* is (d, d) when the range is not split and the window of the same day
\* written with the leading zeros when it is.
C14_SingleDayWindow ==
    (call.fn = "build_search_ranges" /\ call.done /\ call.args[1] = call.args[2]) =>
        LET d == call.args[1]
        IN  /\ Len(call.result) = 1
            /\ strptime(call.result[1][1]) = strptime(d)
            /\ strptime(call.result[1][2]) = strptime(d)
            /\ (d.padded \/ ~Split) => call.result = << <<d, d>> >>
            /\ (~d.padded /\ Split)
                  => call.result = << <<strftime(strptime(d)), strftime(strptime(d))>> >>

\* C14 witness: a single day at half coverage, written with the leading zeros
C14_Witness ==
    /\ Split
    /\ call.args[1] = call.args[2]
    /\ call.args[1].padded
    /\ call.args[3] = <<1, 2>>

\* C15: get_search_coverage returns 1.0 when the notice is absent (the wait
\* times out), when it holds fewer than two numbers, and when the total it
\* reports is zero.
C15_CoverageFailsOpen ==
    (call.fn = "get_search_coverage" /\ call.done) =>
        LET notice == call.args[1]
        IN  ( \/ ~notice.present
              \/ Len(notice.nums) < 2
              \/ notice.nums[2] = 0 )
            => call.result = <<1, 1>>

\* C15 witness: a notice whose total is zero was read
C15_Witness ==
    /\ call.fn = "get_search_coverage"
    /\ call.done
    /\ call.args[1].present
    /\ Len(call.args[1].nums) >= 2
    /\ call.args[1].nums[1] > 0
    /\ call.args[1].nums[2] = 0

\* C16: whatever the numbers of the notice are, the fraction
\* get_search_coverage returns is at least 0 and at most 1.
C16_CoverageInUnitInterval ==
    (call.fn = "get_search_coverage" /\ call.done) =>
        /\ call.result[2] > 0
        /\ 0 <= call.result[1]
        /\ call.result[1] <= call.result[2]

\* sep is in text at position i
Occurs(text, sep, i) ==
    /\ i \in 1..(Len(text) - Len(sep) + 1)
    /\ \A j \in 1..Len(sep) : text[i + j - 1] = sep[j]

\* the first place of sep in text is i
FirstAt(text, sep, i) ==
    /\ Occurs(text, sep, i)
    /\ \A j \in 1..(i - 1) : ~Occurs(text, sep, j)

\* what follows the occurrence of sep at i
After(text, sep, i) == [j \in 1..(Len(text) - (i + Len(sep) - 1)) |-> text[i + Len(sep) - 1 + j]]

PurelyNumeric(tok) == tok \in {<<"23">>, <<"9">>, <<"01923">>}

\* the street line as C18 words it
UnitStreetLine(street_parts) ==
    IF street_parts # <<>> /\ PurelyNumeric(street_parts[Len(street_parts)])
    THEN Join(SubSeq(street_parts, 1, Len(street_parts) - 1), <<" ">>)
           \o <<",", " ", "Unit", " ">> \o street_parts[Len(street_parts)]
    ELSE Join(street_parts, <<" ">>)

\* "23 Prince Street, Unit 9, Danvers, MA 01923"
UnitAddress ==
    UnitStreetLine(StreetRow)
      \o <<",", " ">> \o PlaceRow[1] \o <<",", " ">> \o PlaceRow[2] \o <<" ">> \o PlaceRow[3]

\* C18: a case recorded from a detail page whose address rows are
\* [23, Prince, Street, 9] and [Danvers, MA, 01923] has the address
\* "23 Prince Street, Unit 9, Danvers, MA 01923": the last street token,
\* purely numeric, is written as the unit number.
C18_UnitFormatting ==
    \A k \in DOMAIN Results :
        Results[k].address # None => Results[k].address = UnitAddress

\* C19: the step that reads a row of the page, malformed or not, never ends
\* the run: the script stays in the row loop with one row less to read, and
\* the result set and the store are as before.
C19_MalformedRowSkipped ==
    [][ (pc = "rows" /\ rowsLeft > 0)
        => /\ pc' = "rows"
           /\ rowsLeft' = rowsLeft - 1
           /\ run_data' = run_data
           /\ case_records' = case_records ]_vars

C21_NoNextPageEndsWindow ==
    [][ (pc = "extract" /\ case_list = <<>>)
        => \/ pc' = "grid" /\ page' = page + 1 /\ w' = w
           \/ /\ pc' = "window"
              /\ w' = w + 1
              /\ w' <= Len(search_date_ranges) + 1
              /\ search_date_ranges' = search_date_ranges
              /\ run_data' = run_data
              /\ case_records' = case_records
              /\ fs' = fs ]_vars

\* C21 witness: the first of two windows ended for want of a next page after
\* its grid had rendered; the case recorded in it is kept and the second
\* window is the next to be queried
C21_Witness ==
    /\ pc = "window"
    /\ grid_wait = "rendered"
    /\ w = 2
    /\ Len(search_date_ranges) = 2
    /\ DOMAIN Results # {}
    /\ DOMAIN Results \subseteq DOMAIN case_records

\* C22: a run that ends in its setup - the site cannot be opened, or the
\* human verification is not completed in time - ends without a search
\* having been made, with the run report written and records.json a complete
\* JSON object.
C22_SetupFailurePersists ==
    [][ pc = "setup"
        => \/ pc' = "search"
           \/ pc' = "shutdown" /\ search_date_ranges' = search_date_ranges
           \/ /\ pc' = "crashed"
              /\ Persisted(fs'.run, EmptyMap)
              /\ Persisted(fs'.records, EmptyMap) ]_vars

\* the k-th pair of lines typed names two dates, the first not after the second
GoodRound(stdin, k) ==
    LET first  == stdin[2 * k - 1].text
        second == stdin[2 * k].text
    IN  /\ first.day >= 1
        /\ second.day >= 1
        /\ first.day <= second.day

\* C23: prompt_for_date_range returns a pair only when the two lines of a
\* round, blanks aside, are dates with the first not after the second, and
\* then returns those two texts; after a failed first round it reads a
\* second pair of lines; after two failed rounds it raises, and in no case
\* does it read the lines of a third round.
C23_PromptTwoAttempts ==
    (call.fn = "prompt_for_date_range" /\ call.done) =>
        LET stdin == call.args[1]
            r     == call.result
        IN  /\ r.read \in {2, 4}
            /\ ~r.raised =>
                  /\ GoodRound(stdin, r.read \div 2)
                  /\ r.value = <<stdin[r.read - 1].text, stdin[r.read].text>>
            /\ GoodRound(stdin, 1) <=> r.read = 2
            /\ ~GoodRound(stdin, 1) /\ GoodRound(stdin, 2) => ~r.raised
            /\ ~GoodRound(stdin, 1) /\ ~GoodRound(stdin, 2) <=> r.raised

\* C23 witness: a first round with a text that is no date, a second round
\* with the end before the start, and the error raised with the dates typed
\* for a third round left unread
C23_Witness ==
    /\ call.fn = "prompt_for_date_range"
    /\ call.done
    /\ call.args[1][1].text = NotADate
    /\ call.args[1][3].text.day > call.args[1][4].text.day
    /\ call.args[1][4].text.day >= 1
    /\ GoodRound(call.args[1], 3)
    /\ call.result.raised
    /\ call.result.read = 4

\* C24: load_records always returns a mapping. It is the empty mapping when
\* records.json is missing, cannot be read, holds no complete JSON text or
\* holds a JSON value that is not an object; when the file holds a written
\* mapping and can be read, it is that mapping.
C24_LoadNeverFails ==
    (call.fn = "load_records" /\ call.done) =>
        LET file     == call.args[1]
            readable == call.args[2]
            whole    == \E m \in StoredMaps : file.content = Serialize(m)
        IN  /\ call.result \in StoredMaps
            /\ ( \/ ~file.exists
                 \/ ~readable
                 \/ file.content = <<ArrayToken>>
                 \/ ~whole ) => call.result = EmptyMap
            /\ \A m \in StoredMaps :
                  (file.exists /\ readable /\ file.content = Serialize(m))
                     => call.result = m

\* C24 witness: a readable records.json holding a JSON value that is not an
\* object has been loaded as the empty mapping
C24_Witness ==
    /\ call.fn = "load_records"
    /\ call.done
    /\ call.args[1] = [exists |-> TRUE, content |-> <<ArrayToken>>]
    /\ call.args[2]
    /\ call.result = EmptyMap

\* the counts written in a run report
ReportCounts(file) == file.content[2].value

\* C25: in a written run report, counts.new and counts.updated are the
\* numbers of records of the report with status new and updated, and together
\* they are the number of its records; counts.skipped is the total kept in
\* memory, which during the crawl changes only when a page has been read, by
\* the number of duplicates counted for that page.
C25_ReportCounts ==
    /\ [] ( (fs.run.exists /\ WellFormed(fs.run.content)) =>
              LET c == ReportCounts(fs.run)
                  m == FileMap(fs.run)
              IN  /\ c.new = Cardinality({k \in DOMAIN m : m[k].status = "new"})
                  /\ c.updated = Cardinality({k \in DOMAIN m : m[k].status = "updated"})
                  /\ c.new + c.updated = Cardinality(DOMAIN m)
                  /\ DOMAIN c = {"new", "updated", "skipped"}
                  /\ (Running /\ wpath = "records") =>
                        /\ c.skipped = run_data.counts.skipped
                        /\ m = Results )
    /\ [][ (Running /\ Running' /\ run_data'.counts.skipped # run_data.counts.skipped)
           => /\ pc = "rows"
              /\ run_data'.counts.skipped
                    = run_data.counts.skipped + duplicate_case_count(case_list) ]_vars

\* C25 witness: the report of a run that refreshed one case, recorded one new
\* case and skipped nothing has been written
C25_Witness ==
    /\ Running
    /\ wpath = "records"
    /\ fs.run.exists
    /\ ReportCounts(fs.run).new = 1
    /\ ReportCounts(fs.run).updated = 1
    /\ Cardinality(DOMAIN FileMap(fs.run)) = 2

\* a report with a skipped duplicate has been written
C25_WitnessSkipped ==
    /\ Running
    /\ wpath = "records"
    /\ fs.run.exists
    /\ ReportCounts(fs.run).skipped = 1
    /\ ReportCounts(fs.run).new = 1

\* the case recorded by a finished record_case call, in the result set
RecordedCase == call.result.run_data.results[call.args[1].case_number]

AddressFails(detail) == ~detail.address.present \/ Len(detail.address.rows) < 2
PartiesFail(detail) == ~detail.parties.present

C27_FailedExtractionKeepsFields ==
    (call.fn = "record_case" /\ call.done) =>
        LET court_case == call.args[1]
            detail     == call.args[2]
            records    == call.args[6]
            cn         == court_case.case_number
        IN  /\ AddressFails(detail) =>
                  /\ RecordedCase.address = court_case.address
                  /\ RecordedCase.zipcode = court_case.zipcode
                  /\ cn \in DOMAIN records =>
                        /\ RecordedCase.address = records[cn].address
                        /\ RecordedCase.zipcode = records[cn].zipcode
            /\ PartiesFail(detail) =>
                  /\ RecordedCase.plaintiff = court_case.plaintiff
                  /\ RecordedCase.defendant = court_case.defendant
                  /\ cn \in DOMAIN records =>
                        /\ RecordedCase.plaintiff = records[cn].plaintiff
                        /\ RecordedCase.defendant = records[cn].defendant

\* C27 witness: a refreshed case whose store record holds an address and
\* both parties, and whose page now shows one address row and no party
\* container, is recorded with the address and the parties of the store
C27_Witness ==
    /\ call.fn = "record_case"
    /\ call.done
    /\ call.args[1].status = "seen"
    /\ call.args[2].address.present
    /\ Len(call.args[2].address.rows) = 1
    /\ ~call.args[2].parties.present
    /\ RecordedCase.status = "updated"
    /\ RecordedCase.address # None
    /\ RecordedCase.zipcode = PlaceRow[3]
    /\ RecordedCase.plaintiff = <<"P1">>
    /\ RecordedCase.defendant = <<"D1">>

\* a name, as opposed to null or the empty text
IsName(field) == field # None /\ field # EmptyStr

\* C28: a case queued with the name of a plaintiff is never recorded with a
\* null plaintiff, and a case queued with the name of a defendant is never
\* recorded with a null defendant, whatever its detail page shows.
C28_PartiesOnlyFilled ==
    (call.fn = "record_case" /\ call.done) =>
        /\ IsName(call.args[1].plaintiff) => RecordedCase.plaintiff # None
        /\ IsName(call.args[1].defendant) => RecordedCase.defendant # None

\* the coverage entry of the window that has just been left
DoneWindowEntry == run_data.coverage[search_date_ranges[w - 1][1]]

\* C29: once a window is done, its coverage entry holds the three counters
\* found, duplicates and recorded, with duplicates + recorded <= found, no
\* more rows found than were read in the run and no more cases recorded
\* than the result set holds.
C29_CoverageCounters ==
    (pc = "window" /\ w > 1) =>
        /\ search_date_ranges[w - 1][1] \in DOMAIN run_data.coverage
        /\ {"found", "duplicates", "recorded"} \subseteq DOMAIN DoneWindowEntry
        /\ DoneWindowEntry.duplicates + DoneWindowEntry.recorded <= DoneWindowEntry.found
        /\ DoneWindowEntry.found <= reads
        /\ DoneWindowEntry.recorded <= Cardinality(DOMAIN Results)

\* C30: from the load at the start of a run to its end, records.json is
\* not touched except by the one replacement that ends the run, which puts
\* the whole in-memory store in it; and the in-memory store, which starts as
\* the mapping loaded, changes only in the step that records a case in the
\* result set, by that one record under its case number - not when the
\* grid is read, a row is read, a case is skipped or a file is written.
C30_StoreReadOnceWrittenOnce ==
    [][ /\ pc' = "setup" =>
              \E readable \in BOOLEAN : case_records' = load_records(fs.records, readable)
        /\ (Running /\ fs'.records # fs.records) =>
              /\ pc = "write_dump"
              /\ wpath = "records"
              /\ pc' = "done"
              /\ fs'.records = [exists |-> TRUE, content |-> Serialize(case_records)]
        /\ (Running /\ Running' /\ case_records' # case_records) =>
              /\ pc = "extract"
              /\ \E k \in DOMAIN run_data'.results :
                    /\ k \notin DOMAIN Results
                    /\ case_records' = (k :> run_data'.results[k]) @@ case_records ]_vars

\* C30 witness: a second run has ended; it recorded only case 2, and the
\* records.json it wrote holds case 1 of the first run as well
C30_Witness ==
    /\ pc = "done"
    /\ run = 2
    /\ DOMAIN FileMap(fs.run) = {2}
    /\ DOMAIN FileMap(fs.records) = {1, 2}

\* every record of the mapping was created no later than it was last updated
Ordered(map) == \A k \in DOMAIN map : map[k].created_at <= map[k].updated_at

\* C31: at every point of every run, every record of the store in memory,
\* of the result set, of the cases queued for their detail page, of
\* records.json and of the run report has created_at <= updated_at.
C31_CreatedBeforeUpdated ==
    /\ Ordered(case_records)
    /\ Ordered(Results)
    /\ Ordered(FileMap(fs.records))
    /\ Ordered(FileMap(fs.run))
    /\ \A i \in 1..Len(case_list) : case_list[i].created_at <= case_list[i].updated_at

\* C31 witness: a second run has ended and the store holds a case it
\* refreshed, created in the first run and updated later
C31_Witness ==
    /\ pc = "done"
    /\ run = 2
    /\ 1 \in DOMAIN FileMap(fs.records)
    /\ FileMap(fs.records)[1].status = "updated"
    /\ FileMap(fs.records)[1].created_at < FileMap(fs.records)[1].updated_at
    /\ 2 \in DOMAIN FileMap(fs.records)
    /\ FileMap(fs.records)[2].created_at = FileMap(fs.records)[2].updated_at

\* C32: a case of the store met again with refresh on is recorded, in the
\* result set and in the store, with the case_number, file_date,
\* primary_party, init_action and created_at of its store record, whatever
\* the other cells of the row show; its status is updated and its
\* updated_at the time of the promotion.
C32_RefreshKeepsListingFields ==
    (call.fn = "refresh_case" /\ call.done) =>
        LET row     == call.args[1]
            k       == row.cells[4]
            stored  == call.args[2][k]
        IN  /\ call.result # <<>>
            /\ k \in DOMAIN call.result.run_data.results
            /\ call.result.case_records[k] = call.result.run_data.results[k]
            /\ LET refreshed == call.result.run_data.results[k]
               IN  /\ refreshed.case_number = stored.case_number
                   /\ refreshed.file_date = stored.file_date
                   /\ refreshed.primary_party = stored.primary_party
                   /\ refreshed.init_action = stored.init_action
                   /\ refreshed.created_at = stored.created_at
                   /\ refreshed.status = "updated"
                   /\ refreshed.updated_at = call.args[5]

\* C32 witness: case 1 is named by a row showing the party and the date of
\* case 2, and is recorded with its own
C32_Witness ==
    /\ call.fn = "refresh_case"
    /\ call.done
    /\ call.args[1].cells[4] = 1
    /\ call.args[1].cells[3] = FullCells(2)[3]
    /\ call.args[1].cells[6] = FullCells(2)[6]
    /\ call.result.run_data.results[1].primary_party = <<"p1">>
    /\ call.result.run_data.results[1].file_date = <<"d1">>
    /\ call.result.run_data.results[1].created_at = 0
    /\ call.result.run_data.results[1].status = "updated"

Persistent(map) == \A k \in DOMAIN map : map[k].status \in {"new", "updated"}

\* C33: every record of the result set, of the store in memory and of the
\* two files has status new or updated, never seen; and a case recorded as
\* new stays new, in the result set and in the store, for as long as the
\* run goes on, even when it is listed again and seen cases are refreshed.
C33_SeenNeverPersisted ==
    /\ [] ( /\ Persistent(Results)
            /\ Persistent(case_records)
            /\ Persistent(FileMap(fs.run))
            /\ Persistent(FileMap(fs.records)) )
    /\ [][ (Running /\ Running') =>
              \A k \in DOMAIN Results :
                  Results[k].status = "new" =>
                      /\ run_data'.results[k] = Results[k]
                      /\ case_records'[k] = Results[k] ]_vars

\* C33 witness: with refresh on, a case recorded as new from the first page
\* was listed again on the second, queued as seen and passed over; it is
\* still new
C33_Witness ==
    /\ update_seen
    /\ pc = "extract"
    /\ page = 2
    /\ page_numbers[1] = 1
    /\ case_list = <<>>
    /\ 1 \notin DOMAIN loaded
    /\ visits[1] = 1
    /\ Results[1].status = "new"
    /\ case_records[1].status = "new"

\* the report of the run in progress is on disk, whole
ReportWritten == fs.run = [exists |-> TRUE, content |-> SerializeRun(run_data)]

\* C34: write_json_atomic is at work on records.json only once the report
\* of the run is on disk, whole; and a step of a run that replaces
\* records.json starts from a state in which the report is there.
C34_ReportBeforeStore ==
    /\ [] ( (Running /\ wpath = "records") => ReportWritten )
    /\ [][ (Running /\ fs'.records # fs.records)
           => /\ ReportWritten
              /\ fs'.run = fs.run ]_vars

\* C34 witness: a first run ended having written the report with one new
\* case and then the store with the same case
C34_Witness ==
    /\ pc = "done"
    /\ run = 1
    /\ fs.run.exists
    /\ ReportCounts(fs.run).new = 1
    /\ DOMAIN FileMap(fs.run) = {1}
    /\ FileMap(fs.records) = FileMap(fs.run)

\* C35: during the crawl, every action the last step made on the site - a
\* click, a selection, keys sent, a case detail page opened, a step back -
\* has a randomized sleep before it or after it.
C35_PolitenessDelay ==
    pc \in {"window", "grid", "rows", "extract"} =>
        \A i \in 1..Len(site_actions) :
            site_actions[i].before \/ site_actions[i].after

\* the rows of the table with at least n cells, in table order
RowsWith(table, n) ==
    IF table.present THEN SelectSeq(table.rows, LAMBDA r : Len(r) >= n) ELSE <<>>

\* C36: the record of an extracted case carries docket_entries,
\* dispositions and judgments, each with one entry per table row of at least
\* 2, 2 and 5 cells, in table order, and empty when the table is absent.
C36_TablesRecorded ==
    (call.fn = "record_with_tables" /\ call.done) =>
        LET recorded == call.result[call.args[1].case_number]
        IN  /\ {"docket_entries", "dispositions", "judgments"} \subseteq DOMAIN recorded
            /\ Len(recorded.docket_entries) = Len(RowsWith(call.args[2], 2))
            /\ Len(recorded.dispositions) = Len(RowsWith(call.args[3], 2))
            /\ Len(recorded.judgments) = Len(RowsWith(call.args[4], 5))
            /\ \A i \in 1..Len(recorded.docket_entries) :
                  recorded.docket_entries[i][1] = RowsWith(call.args[2], 2)[i][1]
            /\ \A i \in 1..Len(recorded.dispositions) :
                  recorded.dispositions[i][1] = RowsWith(call.args[3], 2)[i][1]
            /\ \A i \in 1..Len(recorded.judgments) :
                  recorded.judgments[i][1] = RowsWith(call.args[4], 5)[i][1]

\* the words that end the console
ShutdownWords == {"EXIT", "CLOSE", "BREAK"}

\* the invalid-command counter before the i-th command of the log
CounterBefore(log, i) == IF i = 1 THEN 0 ELSE log[i - 1].ctr

\* C37: the console keeps accepting commands until EXIT, CLOSE or BREAK is
\* typed or more than two unknown commands came in a row: any other command
\* is passed to dispatch_command, a known one sets the invalid-command
\* counter to zero and an unknown one adds one to it.
C37_ConsoleKeepsAccepting ==
    (call.fn = "control" /\ call.done) =>
        LET log == call.result.log
        IN  /\ \A i \in 1..Len(log) :
                  log[i].cmd \notin ShutdownWords =>
                      /\ log[i].passed
                      /\ log[i].ctr = IF lookup_command(log[i].cmd) # "KeyError" THEN 0
                                      ELSE CounterBefore(log, i) + 1
            /\ ~call.result.keep_alive =>
                  \/ log[Len(log)].cmd \in ShutdownWords
                  \/ call.result.invalid_cmd_ctr > 2

====
